---- MODULE Spec2Model ----
(***************************************************************************)
(* Technical-analysis engine of openclaw_stock                             *)
(* (src/src/openclaw_stock/analysis/technical_analysis.py):                *)
(* calculate_technical_indicators, TechnicalAnalyzer.detect_signals and    *)
(* calculate_support_resistance, applied to a caller-owned bar series.     *)
(*                                                                         *)
(* Numbers.  A DataFrame cell is a binary64 float.  It is modelled as a    *)
(* normalised fraction [n, d] with d > 0, extended the IEEE way with       *)
(* NaN = 0/0, +inf = 1/0 and -inf = -1/0.  Prices are integers counting    *)
(* 0.01, the resolution round(x, 2) keeps.  Sums, means, ratios and the    *)
(* fibonacci / pivot levels are exact; the recursive smoothings (ewm) are  *)
(* rounded to 1/FP after every step and the square root of the rolling     *)
(* variance to 1/RootScale, which stands for the rounding of binary64.     *)
(* Signed zeros are not distinguished.                                     *)
(***************************************************************************)
EXTENDS Integers, Sequences, FiniteSets, TLC

(***************************************************************************)
(* Bounds of the model.                                                    *)
(***************************************************************************)
FP == 10000
RootScale == 100
MaxFlat == 20
MaxTail == 2
MaxLookback == 2
MaxClock == 1

(***************************************************************************)
(* Float arithmetic.                                                       *)
(***************************************************************************)
Abs(x) == IF x < 0 THEN -x ELSE x

Sign(x) == IF x < 0 THEN -1 ELSE IF x > 0 THEN 1 ELSE 0

RECURSIVE GCD(_, _)
GCD(a, b) == IF b = 0 THEN a ELSE GCD(b, a % b)

\* n / d for integers n, d with d # 0, in lowest terms
Norm(n, d) ==
    LET g == GCD(Abs(n), Abs(d))
        s == IF d < 0 THEN -1 ELSE 1
    IN  [n |-> (s * n) \div g, d |-> (s * d) \div g]

I(x) == [n |-> x, d |-> 1]

NaN == [n |-> 0, d |-> 0]

Inf(s) == [n |-> s, d |-> 0]

IsNaN(x) == x.d = 0 /\ x.n = 0

IsInf(x) == x.d = 0 /\ x.n # 0

IsFinite(x) == x.d # 0

Neg(x) == [n |-> -(x.n), d |-> x.d]

LCM(a, b) == (a \div GCD(a, b)) * b

Add(a, b) ==
    IF IsNaN(a) \/ IsNaN(b) THEN NaN
    ELSE IF IsInf(a) THEN (IF IsInf(b) /\ b.n # a.n THEN NaN ELSE a)
    ELSE IF IsInf(b) THEN b
    ELSE LET l == LCM(a.d, b.d)
         IN  Norm(a.n * (l \div a.d) + b.n * (l \div b.d), l)

Sub(a, b) == Add(a, Neg(b))

Mul(a, b) ==
    IF IsNaN(a) \/ IsNaN(b) THEN NaN
    ELSE IF IsInf(a) \/ IsInf(b)
         THEN (IF a.n = 0 \/ b.n = 0 THEN NaN ELSE Inf(Sign(a.n) * Sign(b.n)))
    ELSE LET g1 == GCD(Abs(a.n), b.d)
             g2 == GCD(Abs(b.n), a.d)
         IN  Norm((a.n \div g1) * (b.n \div g2), (a.d \div g2) * (b.d \div g1))

Div(a, b) ==
    IF IsNaN(a) \/ IsNaN(b) THEN NaN
    ELSE IF IsInf(a) THEN (IF IsInf(b) THEN NaN
                           ELSE Inf(a.n * (IF b.n < 0 THEN -1 ELSE 1)))
    ELSE IF IsInf(b) THEN I(0)
    ELSE IF b.n = 0 THEN (IF a.n = 0 THEN NaN ELSE Inf(Sign(a.n)))
    ELSE Mul(a, Norm(b.d, b.n))

\* a < b; every comparison with NaN is false
Lt(a, b) ==
    IF IsNaN(a) \/ IsNaN(b) THEN FALSE
    ELSE IF IsInf(a) THEN a.n < 0 /\ ~(IsInf(b) /\ b.n < 0)
    ELSE IF IsInf(b) THEN b.n > 0
    ELSE LET l == LCM(a.d, b.d)
         IN  a.n * (l \div a.d) < b.n * (l \div b.d)

Gt(a, b) == Lt(b, a)

\* nearest integer to a / b for b > 0, halves upwards
RoundDiv(a, b) == (2 * a + b) \div (2 * b)

\* a finite float as an integer count of 1/FP, and back
ToFix(x) == IF FP % x.d = 0 THEN x.n * (FP \div x.d) ELSE RoundDiv(x.n * FP, x.d)

FromFix(v) == Norm(v, FP)

RECURSIVE ISqrtIter(_, _, _)
ISqrtIter(x, lo, hi) ==
    IF lo >= hi THEN lo
    ELSE LET mid == (lo + hi + 1) \div 2
         IN  IF mid * mid <= x THEN ISqrtIter(x, mid, hi)
             ELSE ISqrtIter(x, lo, mid - 1)

\* largest r with r * r <= x, for 0 <= x < 2^30
ISqrt(x) == ISqrtIter(x, 0, 32767)

\* numpy sqrt of a float x >= 0, to 1/RootScale
Sqrt(x) ==
    IF IsNaN(x) THEN NaN
    ELSE LET rs2 == RootScale * RootScale
             whole == (x.n \div x.d) * rs2 + ((x.n % x.d) * rs2) \div x.d
         IN  Norm(ISqrt(whole), RootScale)

\* numpy round(x, 2): nearest multiple of 0.01, halves to the even one
Round2(x) ==
    IF ~IsFinite(x) THEN x
    ELSE LET q == x.n \div x.d
             r == x.n % x.d
         IN  IF 2 * r < x.d THEN I(q)
             ELSE IF 2 * r > x.d THEN I(q + 1)
             ELSE IF q % 2 = 0 THEN I(q) ELSE I(q + 1)

(***************************************************************************)
(* pandas primitives on a Series, modelled as a sequence of floats.        *)
(***************************************************************************)
Max2(a, b) == IF a > b THEN a ELSE b

\* the sequence op(1), ..., op(n), every entry evaluated once
Table(n, Op(_)) == SubSeq([i \in 1..n |-> Op(i)], 1, n)

SeqMap(Op(_), xs) == LET At(i) == Op(xs[i]) IN Table(Len(xs), At)

Zip(Op(_, _), xs, ys) == LET At(i) == Op(xs[i], ys[i]) IN Table(Len(xs), At)

\* the two halves of a sequence of two or more entries
FirstHalf(xs) == SubSeq(xs, 1, Len(xs) \div 2)

SecondHalf(xs) == SubSeq(xs, Len(xs) \div 2 + 1, Len(xs))

RECURSIVE SumSeq(_)
\* the sum of xs (exact, so the order of the additions is immaterial)
SumSeq(xs) ==
    IF xs = <<>> THEN I(0)
    ELSE IF Len(xs) = 1 THEN xs[1]
    ELSE Add(SumSeq(FirstHalf(xs)), SumSeq(SecondHalf(xs)))

\* the smaller and the larger of two floats; the first one on a tie
FMin(a, b) == IF Lt(b, a) THEN b ELSE a

FMax(a, b) == IF Gt(b, a) THEN b ELSE a

RECURSIVE MinSeq(_)
MinSeq(xs) ==
    IF Len(xs) = 1 THEN xs[1]
    ELSE FMin(MinSeq(FirstHalf(xs)), MinSeq(SecondHalf(xs)))

RECURSIVE MaxSeq(_)
MaxSeq(xs) ==
    IF Len(xs) = 1 THEN xs[1]
    ELSE FMax(MaxSeq(FirstHalf(xs)), MaxSeq(SecondHalf(xs)))

NotNaN(x) == ~IsNaN(x)

\* the observations of the window of `window` entries that ends at index i
Window(xs, i, window) ==
    SelectSeq(SubSeq(xs, Max2(1, i - window + 1), i), NotNaN)

\* the aggregates of one window w of observations
MeanOf(w, min_periods) ==
    IF Len(w) < min_periods THEN NaN ELSE Div(SumSeq(w), I(Len(w)))

MinOf(w) == IF Len(w) < 1 THEN NaN ELSE MinSeq(w)

MaxOf(w) == IF Len(w) < 1 THEN NaN ELSE MaxSeq(w)

Square(x) == Mul(x, x)

RECURSIVE SumSqDev(_, _)
\* the sum of the squared deviations of w from m
SumSqDev(w, m) ==
    IF w = <<>> THEN I(0)
    ELSE Add(Square(Sub(Head(w), m)), SumSqDev(Tail(w), m))

\* sample deviation (ddof = 1): NaN below two observations
StdOf(w) ==
    IF Len(w) < 2 THEN NaN
    ELSE Sqrt(Div(SumSqDev(w, MeanOf(w, 1)), I(Len(w) - 1)))

\* Series.rolling(window, min_periods).mean()
rolling_mean(xs, window, min_periods) ==
    LET At(i) == MeanOf(Window(xs, i, window), min_periods)
    IN  Table(Len(xs), At)

\* Series.rolling(window, min_periods=1).min() and .max()
rolling_min(xs, window) ==
    LET At(i) == MinOf(Window(xs, i, window)) IN Table(Len(xs), At)

rolling_max(xs, window) ==
    LET At(i) == MaxOf(Window(xs, i, window)) IN Table(Len(xs), At)

\* Series.rolling(window, min_periods=1).std()
rolling_std(xs, window) ==
    LET At(i) == StdOf(Window(xs, i, window)) IN Table(Len(xs), At)

\* Series.diff(): the first entry has no predecessor
diff(xs) ==
    LET At(i) == IF i = 1 THEN NaN ELSE Sub(xs[i], xs[i - 1])
    IN  Table(Len(xs), At)

RECURSIVE EwmAcc(_, _, _, _, _)
EwmAcc(vs, aN, aD, i, acc) ==
    IF i > Len(vs) THEN acc
    ELSE LET next == IF i = 1 THEN vs[1]
                     ELSE IF acc[i - 1] = vs[i] THEN acc[i - 1]
                     ELSE RoundDiv(aN * vs[i] + (aD - aN) * acc[i - 1], aD)
         IN  EwmAcc(vs, aN, aD, i + 1, Append(acc, next))

\* Series.ewm(alpha = aN / aD, adjust=False).mean():
\* y[0] = x[0], y[i] = alpha * x[i] + (1 - alpha) * y[i-1]
ewm_mean(xs, aN, aD) == SeqMap(FromFix, EwmAcc(SeqMap(ToFix, xs), aN, aD, 1, <<>>))

(***************************************************************************)
(* The indicator functions.                                                *)
(***************************************************************************)
\* rolling(window=period) without min_periods: no value before `period` bars
calculate_ma_FullWindow(series, period) == rolling_mean(series, period, period)

calculate_ma(series, period) == rolling_mean(series, period, 1)

\* ewm(span=period): alpha = 2 / (period + 1)
calculate_ema(series, period) == ewm_mean(series, 2, period + 1)

\* line 86: hist = 2 * (dif - dea)
MacdHist(dif, dea) == Mul(I(2), Sub(dif, dea))

\* line 87: the three lines returned
MacdLines(dif, dea) == [dif |-> dif, dea |-> dea, hist |-> Zip(MacdHist, dif, dea)]

\* line 85: dea = calculate_ema(dif, signal)
MacdOfDif(dif, signal) == MacdLines(dif, calculate_ema(dif, signal))

calculate_macd(close, fast, slow, signal) ==
    MacdOfDif(Zip(Sub, calculate_ema(close, fast), calculate_ema(close, slow)),
              signal)

\* the undefined ratio replaced by 0
Fill50_Zero(x) == IF IsFinite(x) THEN x ELSE I(0)

\* line 108: .replace([inf, -inf], 50).fillna(50)
Fill50(x) == IF IsFinite(x) THEN x ELSE I(50)

\* lines 107-108: rsv = (close - lowest_low) / (highest_high - lowest_low) * 100
Rsv(close, lowest_low, highest_high) ==
    LET At(i) == Fill50(Mul(Div(Sub(close[i], lowest_low[i]),
                                Sub(highest_high[i], lowest_low[i])), I(100)))
    IN  Table(Len(close), At)

\* line 112: j = 3 * k - 2 * d
KdjJ(k, d) == Sub(Mul(I(3), k), Mul(I(2), d))

\* line 114: the three lines returned
KdjLines(k, d) == [k |-> k, d |-> d, j |-> Zip(KdjJ, k, d)]

\* line 111: d = k.ewm(com=m2-1).mean(); alpha = 1 / (1 + com) = 1 / m2
KdjOfK(k, m2) == KdjLines(k, ewm_mean(k, 1, m2))

calculate_kdj(high, low, close, n, m1, m2) ==
    KdjOfK(ewm_mean(Rsv(close, rolling_min(low, n), rolling_max(high, n)), 1, m1),
           m2)

\* line 129: delta.where(delta > 0, 0)
Gain(x) == IF Gt(x, I(0)) THEN x ELSE I(0)

\* line 130: -delta.where(delta < 0, 0)
Loss(x) == Neg(IF Lt(x, I(0)) THEN x ELSE I(0))

\* line 132: 100 - 100 / (1 + rs)
RsiOfRs(rs) == Sub(I(100), Div(I(100), Add(I(1), rs)))

\* lines 129-133, from the differences of the series
RsiOfDelta(delta, period) ==
    SeqMap(RsiOfRs, Zip(Div, rolling_mean(SeqMap(Gain, delta), period, 1),
                             rolling_mean(SeqMap(Loss, delta), period, 1)))

calculate_rsi(series, period) == RsiOfDelta(diff(series), period)

\* the two bands exchanged
BollLines_Swapped(mid, std, std_dev) ==
    LET Upper(m, s) == Add(m, Mul(s, I(std_dev)))
        Lower(m, s) == Sub(m, Mul(s, I(std_dev)))
    IN  [upper |-> Zip(Lower, mid, std), mid |-> mid, lower |-> Zip(Upper, mid, std)]

\* lines 154-156: mid + std * std_dev, mid, mid - std * std_dev
BollLines(mid, std, std_dev) ==
    LET Upper(m, s) == Add(m, Mul(s, I(std_dev)))
        Lower(m, s) == Sub(m, Mul(s, I(std_dev)))
    IN  [upper |-> Zip(Upper, mid, std), mid |-> mid, lower |-> Zip(Lower, mid, std)]

calculate_bollinger_bands(series, period, std_dev) ==
    BollLines(rolling_mean(series, period, 1), rolling_std(series, period), std_dev)

(***************************************************************************)
(* A DataFrame is its set of columns and its sequence of rows; a row maps  *)
(* every column to a float.  A call either returns a value or raises.      *)
(***************************************************************************)
Col(df, c) == LET At(i) == df.rows[i][c] IN Table(Len(df.rows), At)

Return(v) == [status |-> "return", value |-> v]

Raise(type, message) == [status |-> "raise", type |-> type, message |-> message]

required_columns == <<"open", "high", "low", "close", "volume">>

AllIndicators == {"ma", "macd", "kdj", "rsi", "boll", "volume"}

\* the columns each indicator group writes
GroupColumns(g) ==
    CASE g = "ma" -> {"ma5", "ma10", "ma20", "ma60", "ma120", "ma250"}
      [] g = "macd" -> {"macd_dif", "macd_dea", "macd_hist"}
      [] g = "kdj" -> {"kdj_k", "kdj_d", "kdj_j"}
      [] g = "rsi" -> {"rsi6", "rsi12", "rsi24"}
      [] g = "boll" -> {"boll_upper", "boll_mid", "boll_lower"}
      [] g = "volume" -> {"volume_ma5", "volume_ma10", "volume_ratio"}

\* lines 207-210, 214-217, 227-230: the unpacked lines as columns
MacdColumns(m) == [macd_dif |-> m.dif, macd_dea |-> m.dea, macd_hist |-> m.hist]

KdjColumns(m) == [kdj_k |-> m.k, kdj_d |-> m.d, kdj_j |-> m.j]

BollColumns(m) == [boll_upper |-> m.upper, boll_mid |-> m.mid, boll_lower |-> m.lower]

\* the series assigned to the columns of one requested group
GroupSeries(result, g) ==
    CASE g = "ma" ->
           [ma5 |-> calculate_ma(Col(result, "close"), 5),
            ma10 |-> calculate_ma(Col(result, "close"), 10),
            ma20 |-> calculate_ma(Col(result, "close"), 20),
            ma60 |-> calculate_ma(Col(result, "close"), 60),
            ma120 |-> calculate_ma(Col(result, "close"), 120),
            ma250 |-> calculate_ma(Col(result, "close"), 250)]
      [] g = "macd" ->
           MacdColumns(calculate_macd(Col(result, "close"), 12, 26, 9))
      [] g = "kdj" ->
           KdjColumns(calculate_kdj(Col(result, "high"), Col(result, "low"),
                                    Col(result, "close"), 9, 3, 3))
      [] g = "rsi" ->
           [rsi6 |-> calculate_rsi(Col(result, "close"), 6),
            rsi12 |-> calculate_rsi(Col(result, "close"), 12),
            rsi24 |-> calculate_rsi(Col(result, "close"), 24)]
      [] g = "boll" ->
           BollColumns(calculate_bollinger_bands(Col(result, "close"), 20, 2))
      [] g = "volume" ->
           [volume_ma5 |-> calculate_ma(Col(result, "volume"), 5),
            volume_ma10 |-> calculate_ma(Col(result, "volume"), 10),
            volume_ratio |-> Zip(Div, Col(result, "volume"),
                                 rolling_mean(Col(result, "volume"), 5, 1))]

\* result[column] += new[column] on a column the frame already carries
WithColumns_Accumulate(result, cols, new) ==
    LET Row(i) == [c \in cols |->
                      IF c \in result.cols
                      THEN Add(result.rows[i][c], new[c][i]) ELSE new[c][i]]
                  @@ result.rows[i]
    IN  [cols |-> result.cols \cup cols, rows |-> Table(Len(result.rows), Row)]

\* result[column] = new[column], for the columns `cols`
WithColumns(result, cols, new) ==
    LET Row(i) == [c \in cols |-> new[c][i]] @@ result.rows[i]
    IN  [cols |-> result.cols \cup cols, rows |-> Table(Len(result.rows), Row)]

RECURSIVE Augment(_, _)
\* the columns of group g, then those of the other groups
AugmentGroup(result, groups, g) ==
    Augment(WithColumns(result, GroupColumns(g), GroupSeries(result, g)),
            groups \ {g})

\* the columns of every group in `groups`
Augment(result, groups) ==
    IF groups = {} THEN result
    ELSE AugmentGroup(result, groups, CHOOSE g \in groups : TRUE)

\* the input columns the series of one group are computed from
GroupReads(g) ==
    CASE g = "kdj" -> {"high", "low", "close"}
      [] g = "volume" -> {"volume"}
      [] OTHER -> {"close"}

\* the column test applied to the columns the requested groups read only
calculate_technical_indicators_ReadColumnsOnly(df, indicators) ==
    IF \E g \in indicators \cap AllIndicators : ~(GroupReads(g) \subseteq df.cols)
    THEN Raise("CalculationError", "missing_column")
    ELSE Return(Augment(df, indicators \cap AllIndicators))

\* indicators: the set of requested groups; AllIndicators stands for None
calculate_technical_indicators(df, indicators) ==
    IF \E i \in 1..Len(required_columns) : required_columns[i] \notin df.cols
    THEN Raise("CalculationError", "missing_column")
    ELSE Return(Augment(df, indicators \cap AllIndicators))

(***************************************************************************)
(* TechnicalAnalyzer.detect_signals                                        *)
(***************************************************************************)
\* Python's None object; it is not the string "none"
None == "None"

Count(conds) == Cardinality({i \in 1..Len(conds) : conds[i]})

Last(xs) == xs[Len(xs)]

\* Overall with the bearish thresholds tested first
Overall_BearishFirst(sig) ==
    LET bullish_count == Count(<<sig.macd_signal = "golden_cross",
                                 sig.kdj_signal # "overbought",
                                 sig.ma_signal = "bullish",
                                 sig.boll_signal = "breakout_up">>)
        bearish_count == Count(<<sig.macd_signal = "dead_cross",
                                 sig.kdj_signal = "overbought",
                                 sig.ma_signal = "bearish",
                                 sig.boll_signal = "breakout_down">>)
    IN  IF bearish_count >= 3 THEN "strong_sell"
        ELSE IF bearish_count >= 2 THEN "sell"
        ELSE IF bullish_count >= 3 THEN "strong_buy"
        ELSE IF bullish_count >= 2 THEN "buy"
        ELSE "neutral"

\* lines 500-523: the aggregate call from the per-indicator signals
Overall(sig) ==
    LET bullish_count == Count(<<sig.macd_signal = "golden_cross",
                                 sig.kdj_signal # "overbought",
                                 sig.ma_signal = "bullish",
                                 sig.boll_signal = "breakout_up">>)
        bearish_count == Count(<<sig.macd_signal = "dead_cross",
                                 sig.kdj_signal = "overbought",
                                 sig.ma_signal = "bearish",
                                 sig.boll_signal = "breakout_down">>)
    IN  IF bullish_count >= 3 THEN "strong_buy"
        ELSE IF bullish_count >= 2 THEN "buy"
        ELSE IF bearish_count >= 3 THEN "strong_sell"
        ELSE IF bearish_count >= 2 THEN "sell"
        ELSE "neutral"

\* lines 444-498: the per-indicator signals of an augmented frame
IndicatorSignals(adf) ==
    LET n == Len(adf.rows)
        cur == adf.rows[n]
        macd_hist_current == cur.macd_hist
        macd_hist_prev == adf.rows[n - 1].macd_hist
        k == cur.kdj_k
        d == cur.kdj_d
        rsi6 == cur.rsi6
        ma5 == cur.ma5
        ma20 == cur.ma20
        close == cur.close
        upper == cur.boll_upper
        lower == cur.boll_lower
    IN  [macd_signal |->
             IF Lt(macd_hist_prev, I(0)) /\ Gt(macd_hist_current, I(0))
             THEN "golden_cross"
             ELSE IF Gt(macd_hist_prev, I(0)) /\ Lt(macd_hist_current, I(0))
             THEN "dead_cross"
             ELSE "none",
         kdj_signal |->
             IF Gt(k, I(80)) /\ Gt(d, I(80)) THEN "overbought"
             ELSE IF Lt(k, I(20)) /\ Lt(d, I(20)) THEN "oversold"
             ELSE "none",
         rsi_signal |->
             IF Gt(rsi6, I(80)) THEN "overbought"
             ELSE IF Lt(rsi6, I(20)) THEN "oversold"
             ELSE "none",
         ma_signal |->
             IF Gt(ma5, ma20) /\ Gt(close, ma5) THEN "bullish"
             ELSE IF Lt(ma5, ma20) /\ Lt(close, ma5) THEN "bearish"
             ELSE "neutral",
         boll_signal |->
             IF Gt(close, upper) THEN "breakout_up"
             ELSE IF Lt(close, lower) THEN "breakout_down"
             ELSE "within_band"]

\* lines 429-436: the Signal Set as initialised
UnsetSignals ==
    [macd_signal |-> None, kdj_signal |-> None, rsi_signal |-> None,
     ma_signal |-> None, boll_signal |-> None, overall |-> None]

\* the Signal Set after lines 444-523
SignalSet(sig) ==
    [macd_signal |-> sig.macd_signal, kdj_signal |-> sig.kdj_signal,
     rsi_signal |-> sig.rsi_signal, ma_signal |-> sig.ma_signal,
     boll_signal |-> sig.boll_signal, overall |-> Overall(sig)]

\* lines 441-525, given the outcome of calculate_technical_indicators
SignalsOf(augmented) ==
    IF augmented.status = "raise" THEN augmented
    ELSE Return(SignalSet(IndicatorSignals(augmented.value)))

detect_signals(df) ==
    IF Len(df.rows) < 20 THEN Return(UnsetSignals)
    ELSE SignalsOf(calculate_technical_indicators(df, AllIndicators))

(***************************************************************************)
(* calculate_support_resistance                                            *)
(***************************************************************************)
Methods == {"fibonacci", "pivot", "ma", "historical"}

RECURSIVE Insert(_, _)
\* x placed into the ascending sequence xs
Insert(x, xs) ==
    IF xs = <<>> THEN <<x>>
    ELSE IF Lt(x, Head(xs)) THEN <<x>> \o xs
    ELSE <<Head(xs)>> \o Insert(x, Tail(xs))

RECURSIVE Sorted(_)
\* sorted(xs): ascending
Sorted(xs) == IF xs = <<>> THEN <<>> ELSE Insert(Head(xs), Sorted(Tail(xs)))

Reversed(xs) == LET At(i) == xs[Len(xs) + 1 - i] IN Table(Len(xs), At)

Min2(a, b) == IF a < b THEN a ELSE b

\* xs without the first entry equal to x
Without(xs, x) ==
    LET i == CHOOSE j \in 1..Len(xs) : xs[j] = x /\ \A h \in 1..(j - 1) : xs[h] # x
    IN  SubSeq(xs, 1, i - 1) \o SubSeq(xs, i + 1, Len(xs))

RECURSIVE nsmallest(_, _)
\* Series.nsmallest(k): the k smallest values, ascending
nsmallest(xs, k) ==
    IF k = 0 \/ xs = <<>> THEN <<>>
    ELSE <<MinSeq(xs)>> \o nsmallest(Without(xs, MinSeq(xs)), k - 1)

RECURSIVE nlargest(_, _)
\* Series.nlargest(k): the k largest values, descending
nlargest(xs, k) ==
    IF k = 0 \/ xs = <<>> THEN <<>>
    ELSE <<MaxSeq(xs)>> \o nlargest(Without(xs, MaxSeq(xs)), k - 1)

\* DataFrame.tail(lookback)
tail(df, lookback) ==
    [cols |-> df.cols,
     rows |-> SubSeq(df.rows, Max2(1, Len(df.rows) - lookback + 1), Len(df.rows))]

\* the filter of lines 369-370 letting a level of 0 through
Positive_AllowZero(x) == Gt(x, I(0)) \/ x = I(0)

\* lines 369-370: s > 0
Positive(x) == Gt(x, I(0))

\* the length test of line 275 one bar too lenient
InsufficientData_OffByOne(df, lookback) == Len(df.rows) < lookback - 1

\* line 275
InsufficientData(df, lookback) == Len(df.rows) < lookback

\* the retracement added to the window high instead of subtracted
FibSupport_SignSlip(high, diff_, f) == Round2(Add(high, Mul(Norm(f, 1000), diff_)))

\* lines 294-300: round(high - f * diff, 2), f in thousandths
FibSupport(high, diff_, f) == Round2(Sub(high, Mul(Norm(f, 1000), diff_)))

\* lines 302-308: round(low + f * diff, 2), f in thousandths
FibResistance(low, diff_, f) == Round2(Add(low, Mul(Norm(f, 1000), diff_)))

\* lines 290-308: the five retracements and the five extensions
FibLevels(high, low, diff_) ==
    [support_levels |->
         <<FibSupport(high, diff_, 236), FibSupport(high, diff_, 382),
           FibSupport(high, diff_, 500), FibSupport(high, diff_, 618),
           FibSupport(high, diff_, 786)>>,
     resistance_levels |->
         <<FibResistance(low, diff_, 1000), FibResistance(low, diff_, 1236),
           FibResistance(low, diff_, 1382), FibResistance(low, diff_, 1500),
           FibResistance(low, diff_, 1618)>>]

\* lines 310-321
PivotLevels(high, low, pivot) ==
    [support_levels |->
         <<Round2(Sub(Mul(I(2), pivot), high)),
           Round2(Sub(pivot, Sub(high, low))),
           Round2(Sub(low, Mul(I(2), Sub(high, pivot))))>>,
     resistance_levels |->
         <<Round2(Sub(Mul(I(2), pivot), low)),
           Round2(Add(pivot, Sub(high, low))),
           Round2(Add(high, Mul(I(2), Sub(pivot, low))))>>]

\* Series.rolling(period).mean().iloc[-1]: min_periods is the period
LastMa(close, period) == Last(rolling_mean(close, period, period))

\* lines 331-336: the four averages on one side of the price
MaSide(current_price, ma5, mas) ==
    IF Gt(current_price, ma5)
    THEN [support_levels |-> mas, resistance_levels |-> <<>>]
    ELSE [support_levels |-> <<>>, resistance_levels |-> mas]

\* lines 323-336
MaLevels(current_price, ma5, ma10, ma20, ma60) ==
    MaSide(current_price, ma5,
           <<Round2(ma5), Round2(ma10), Round2(ma20), Round2(ma60)>>)

\* lines 337-345
HistoricalLevels(highs, lows) ==
    [support_levels |-> SeqMap(Round2, Reversed(Sorted(lows))),
     resistance_levels |-> SeqMap(Round2, Sorted(highs))]

\* lines 290-345: the levels of one method, before the positive filter
Levels(close, recent_df, method, current_price, high, low, pivot) ==
    CASE method = "fibonacci" -> FibLevels(high, low, Sub(high, low))
      [] method = "pivot" -> PivotLevels(high, low, pivot)
      [] method = "ma" ->
           MaLevels(current_price, LastMa(close, 5), LastMa(close, 10),
                    LastMa(close, 20), LastMa(close, 60))
      [] method = "historical" ->
           HistoricalLevels(nlargest(Col(recent_df, "high"), 5),
                            nsmallest(Col(recent_df, "low"), 5))

\* lines 350-361; the five advisory texts are named by their category
Recommendation(current_price, support_levels, resistance_levels) ==
    IF (IF support_levels # <<>> THEN Lt(current_price, Last(support_levels))
        ELSE FALSE)
    THEN "broke_support"
    ELSE IF (IF resistance_levels # <<>>
             THEN Gt(current_price, Last(resistance_levels)) ELSE FALSE)
    THEN "broke_resistance"
    ELSE IF support_levels # <<>> /\ Lt(current_price, support_levels[1])
    THEN "approaching_support"
    ELSE IF resistance_levels # <<>> /\ Gt(current_price, resistance_levels[1])
    THEN "approaching_resistance"
    ELSE "ranging"

\* lines 363-373: the Level Result
LevelResult(symbol, method, lookback, timestamp, current_price, pivot, lv) ==
    [symbol |-> symbol,
     current_price |-> Round2(current_price),
     method |-> method,
     lookback |-> lookback,
     pivot_point |-> Round2(pivot),
     support_levels |-> SelectSeq(lv.support_levels, Positive),
     resistance_levels |-> SelectSeq(lv.resistance_levels, Positive),
     recommendation |-> Recommendation(current_price, lv.support_levels,
                                       lv.resistance_levels),
     timestamp |-> timestamp]

\* the middle of the range, the close left out
PivotPoint_Midrange(high, low, current_price) == Div(Add(high, low), I(2))

\* line 285: pivot = (high + low + current_price) / 3
PivotPoint(high, low, current_price) ==
    Div(Add(Add(high, low), current_price), I(3))

\* lines 285-376, given the extremes of the window
LevelsAround(symbol, close, method, lookback, timestamp, current_price, recent_df, high, low) ==
    Return(LevelResult(symbol, method, lookback, timestamp, current_price,
                       PivotPoint(high, low, current_price),
                       Levels(close, recent_df, method, current_price, high, low,
                              PivotPoint(high, low, current_price))))

\* lines 283-376, given the price and the window
LevelsInWindow(symbol, close, method, lookback, timestamp, current_price, recent_df) ==
    LevelsAround(symbol, close, method, lookback, timestamp, current_price,
                 recent_df, MaxSeq(Col(recent_df, "high")),
                 MinSeq(Col(recent_df, "low")))

\* timestamp: the reading of the wall clock at line 372
calculate_support_resistance(symbol, df, method, lookback, timestamp) ==
    IF InsufficientData(df, lookback)
    THEN Raise("CalculationError", "insufficient_data")
    ELSE IF ~({"close", "high", "low"} \subseteq df.cols) \/ df.rows = <<>>
    THEN Raise("CalculationError", "failed: column or row lookup")
    ELSE IF method \notin Methods
    \* the ValueError of line 348 is caught at line 378 and replaced
    THEN Raise("CalculationError", "failed: unsupported method")
    ELSE LevelsInWindow(symbol, Col(df, "close"), method, lookback, timestamp,
                        Last(df.rows).close, tail(df, lookback))

(***************************************************************************)
(* The caller.  It owns one bar series, invokes one of the three           *)
(* operations on it and may invoke the same operation once more on         *)
(* identical input.  The operations keep nothing between invocations, so   *)
(* every invocation on a series is the first one of some behaviour.  The   *)
(* wall clock is read by calculate_support_resistance only; it never runs  *)
(* backwards.                                                              *)
(***************************************************************************)
VARIABLES df, now, last, prev

\* one AlertSystem: its dict of alerts, the Alert objects, a check of the
\* alerts under way, the notifications sent, the calls made and the last list
VARIABLES alerts, heap, checking, notified, history, listed

\* the monitoring of one AlertSystem: self.running, self.monitor_thread, the
\* threads started and the position of the caller
VARIABLES running, monitor_thread, threads, caller

\* one call of a function wrapped by retry
VARIABLES wrapper

\* an Optional value: None, or a value
Nothing == <<>>

Just(x) == <<x>>

alertVars == <<alerts, heap, checking, notified, history, listed>>

monitorVars == <<running, monitor_thread, threads, caller>>

vars == <<df, now, last, prev, alertVars, monitorVars, wrapper>>

\* lines 190-193 of alert_system.py: no alerts, nothing under way
AlertIdle ==
    /\ alerts = <<>>
    /\ heap = <<>>
    /\ checking = [pc |-> "idle"]
    /\ notified = <<>>
    /\ history = <<>>
    /\ listed = [scope |-> "none"]

\* lines 192-193 of alert_system.py: running = False, monitor_thread = None
MonitorIdle ==
    /\ running = FALSE
    /\ monitor_thread = Nothing
    /\ threads = <<>>
    /\ caller = "idle"

\* no wrapped function called
RetryIdle == wrapper = [pc |-> "idle"]

NoCall == [op |-> "none"]

DefaultLookback == 60

\* ---- the bounded family of input series ----
Bar(open, high, low, close, volume) ==
    [open |-> I(open), high |-> I(high), low |-> I(low), close |-> I(close),
     volume |-> I(volume)]

Doji(p) == Bar(p, p, p, p, 100)

\* a bar closing at p, its high `up` above and its low `down` below the close
Shaped(p, shape) == Bar(p, p + shape.up, p - shape.down, p, shape.vol)

BarShapes == {[up |-> 0, down |-> 0, vol |-> 100],
              [up |-> 0, down |-> 1, vol |-> 100],
              [up |-> 1, down |-> 0, vol |-> 0]}

HeadPrices == {<<>>, <<10, 100>>}

FlatPrices == {2}

TailPrices == {1, 3}

\* lengths of the run: very short series, and series around the 20 bars
\* detect_signals asks for
FlatRuns == {0, 1} \cup {MaxFlat - 2, MaxFlat - 1, MaxFlat}

SeqsUpTo(S, n) == UNION {[1..k -> S] : k \in 0..n}

Frame(rows) == [cols |-> {"open", "high", "low", "close", "volume"}, rows |-> rows]

\* some opening bars, a run of equal bars, some closing bars
Inputs ==
    {Frame(SeqMap(Doji, head) \o [i \in 1..run |-> Shaped(p, shape)]
               \o SeqMap(Doji, tl)) :
        head \in HeadPrices, run \in FlatRuns, p \in FlatPrices,
        shape \in BarShapes, tl \in SeqsUpTo(TailPrices, MaxTail)}

\* 60 closes rising strictly from 10.00 to 20.00
RampCloses ==
    [i \in 1..DefaultLookback |->
        1000 + (1000 * (i - 1)) \div (DefaultLookback - 1)]

\* the reach of the high above the close on the bars of the ramp
RampReach == {0, 500}

RampInputs ==
    {Frame([i \in 1..DefaultLookback |->
               Bar(RampCloses[i], RampCloses[i] + up, RampCloses[i],
                   RampCloses[i], 100)]) : up \in RampReach}

\* frame f without the column c
Drop(f, c) ==
    [cols |-> f.cols \ {c},
     rows |-> [i \in 1..Len(f.rows) |->
                  [x \in DOMAIN f.rows[i] \ {c} |-> f.rows[i][x]]]]

\* series that lack one of the five columns: one bar, and MaxFlat equal bars
IncompleteInputs ==
    {Drop(Frame([i \in 1..n |-> Doji(p)]), c) :
        n \in {1, MaxFlat}, p \in FlatPrices,
        c \in {"open", "high", "low", "close", "volume"}}

AllInputs == Inputs \cup RampInputs \cup IncompleteInputs

IndicatorChoices == {AllIndicators} \cup {{g} : g \in AllIndicators}

MethodChoices == Methods \cup {"unknown"}

LookbackChoices == 1..MaxLookback \cup {DefaultLookback}

Symbols == {"000001"}

\* ---- objects: the frame the caller passes is the object "input" ----
\* result = df with no copy taken: the same object under a second name
CopyOf_Alias(obj) == obj

\* line 189: result = df.copy(), a new object holding the same frame
CopyOf(obj) == [ref |-> "copy", frame |-> obj.frame]

\* the object the assignments result[column] = series of lines 198-237 write to
ResultObject(f) == CopyOf([ref |-> "input", frame |-> f])

\* the caller's frame after calculate_technical_indicators(f, indicators):
\* the assignments reach it only if `result` is the caller's object
InputAfterIndicators(f, indicators) ==
    IF ResultObject(f).ref # "input" THEN f
    ELSE IF calculate_technical_indicators(f, indicators).status = "raise" THEN f
    ELSE calculate_technical_indicators(f, indicators).value

\* the caller's frame after one invocation; line 442 of detect_signals binds
\* its local name df to the augmented frame, calculate_support_resistance
\* only reads
InputAfter(f, op, args) ==
    CASE op = "calculate_technical_indicators" ->
           InputAfterIndicators(f, args.indicators)
      [] op = "detect_signals" ->
           IF Len(f.rows) < 20 THEN f ELSE InputAfterIndicators(f, AllIndicators)
      [] op = "calculate_support_resistance" -> f

\* the object an invocation returns: the augmented frame is `result`, the
\* Signal Set and the Level Result are built by the call
ReturnedObject(f, op) ==
    IF op = "calculate_technical_indicators" THEN ResultObject(f).ref ELSE "new"

\* ---- one invocation: the operation, its arguments and its outcome ----
\* f: the frame passed; on: "series" for the caller's bar series, "augmented"
\* for a frame calculate_technical_indicators returned
InvokeOn(f, on, op, args, timestamp) ==
    [op |-> op, args |-> args, on |-> on, ref |-> ReturnedObject(f, op),
     out |-> CASE op = "calculate_technical_indicators" ->
                    calculate_technical_indicators(f, args.indicators)
               [] op = "detect_signals" -> detect_signals(f)
               [] op = "calculate_support_resistance" ->
                    calculate_support_resistance(args.symbol, f, args.method,
                                                 args.lookback, timestamp)]

Invoke(op, args, timestamp) == InvokeOn(df, "series", op, args, timestamp)

Init ==
    /\ df \in AllInputs
    /\ now = 0
    /\ last = NoCall
    /\ prev = NoCall
    /\ AlertIdle
    /\ MonitorIdle
    /\ RetryIdle

CalculateTechnicalIndicators ==
    /\ last = NoCall
    /\ \E indicators \in IndicatorChoices :
           /\ last' = Invoke("calculate_technical_indicators",
                             [indicators |-> indicators], now)
           /\ df' = InputAfter(df, "calculate_technical_indicators",
                               [indicators |-> indicators])
    /\ UNCHANGED <<now, prev, alertVars, monitorVars, wrapper>>

DetectSignals ==
    /\ last = NoCall
    /\ last' = Invoke("detect_signals", [none |-> TRUE], now)
    /\ df' = InputAfter(df, "detect_signals", [none |-> TRUE])
    /\ UNCHANGED <<now, prev, alertVars, monitorVars, wrapper>>

CalculateSupportResistance ==
    /\ last = NoCall
    /\ \E symbol \in Symbols, method \in MethodChoices,
          lookback \in LookbackChoices, t \in now..MaxClock :
           /\ now' = t
           /\ last' = Invoke("calculate_support_resistance",
                             [symbol |-> symbol, method |-> method,
                              lookback |-> lookback], t)
           /\ df' = InputAfter(df, "calculate_support_resistance",
                               [symbol |-> symbol, method |-> method,
                                lookback |-> lookback])
    /\ UNCHANGED <<prev, alertVars, monitorVars, wrapper>>

\* the same operation once more, on identical input
Repeat ==
    /\ last # NoCall
    /\ prev = NoCall
    /\ \E t \in now..MaxClock :
           /\ now' = IF last.op = "calculate_support_resistance" THEN t ELSE now
           /\ last' = Invoke(last.op, last.args, now')
    /\ prev' = last
    /\ df' = InputAfter(df, last.op, last.args)
    /\ UNCHANGED <<alertVars, monitorVars, wrapper>>

\* the augmented series handed on: augmented once more with the same
\* selection, or passed to detect_signals
Reapply ==
    /\ prev = NoCall
    /\ last # NoCall
    /\ last.op = "calculate_technical_indicators"
    /\ last.out.status = "return"
    /\ \/ last' = InvokeOn(last.out.value, "augmented",
                           "calculate_technical_indicators", last.args, now)
       \/ last' = InvokeOn(last.out.value, "augmented", "detect_signals",
                           [none |-> TRUE], now)
    /\ prev' = last
    /\ UNCHANGED <<df, now, alertVars, monitorVars, wrapper>>

Next ==
    \/ CalculateTechnicalIndicators
    \/ DetectSignals
    \/ CalculateSupportResistance
    \/ Repeat
    \/ Reapply

Spec == Init /\ [][Next]_vars

(***************************************************************************)
(* Properties.                                                             *)
(***************************************************************************)
Returned(c, op) == c.op = op /\ c.out.status = "return"

SignalFields == {"macd_signal", "kdj_signal", "rsi_signal", "ma_signal", "boll_signal"}

B2N(b) == IF b THEN 1 ELSE 0

BullishCount(s) ==
    B2N(s.macd_signal = "golden_cross") + B2N(s.kdj_signal # "overbought")
        + B2N(s.ma_signal = "bullish") + B2N(s.boll_signal = "breakout_up")

BearishCount(s) ==
    B2N(s.macd_signal = "dead_cross") + B2N(s.kdj_signal = "overbought")
        + B2N(s.ma_signal = "bearish") + B2N(s.boll_signal = "breakout_down")

\* C1: whenever detect_signals has set the five per-indicator signals, overall
\* is strong_buy if bullishCount >= 3, else buy if bullishCount >= 2, else
\* strong_sell if bearishCount >= 3, else sell if bearishCount >= 2, else
\* neutral; a bullish outcome wins when a bearish threshold is met as well.
C1_OverallBullishFirst ==
    (Returned(last, "detect_signals")
        /\ \A f \in SignalFields : last.out.value[f] # None)
    => LET s == last.out.value
           b == BullishCount(s)
           r == BearishCount(s)
       IN  /\ b >= 3 => s.overall = "strong_buy"
           /\ b = 2 => s.overall = "buy"
           /\ (b < 2 /\ r >= 3) => s.overall = "strong_sell"
           /\ (b < 2 /\ r = 2) => s.overall = "sell"
           /\ (b < 2 /\ r < 2) => s.overall = "neutral"

\* C1 witness: a series on which both a bullish and a bearish threshold are
\* met, and the call is buy
C1_Witness ==
    /\ Returned(last, "detect_signals")
    /\ \A f \in SignalFields : last.out.value[f] # None
    /\ BullishCount(last.out.value) >= 2
    /\ BearishCount(last.out.value) >= 2
    /\ last.out.value.overall = "buy"

NeutralSignals ==
    [macd_signal |-> "none", kdj_signal |-> "none", rsi_signal |-> "none",
     ma_signal |-> "neutral", boll_signal |-> "within_band", overall |-> "neutral"]

\* C2: on a series of fewer than 2 bars detect_signals does not raise and
\* returns the Signal Set whose every field holds its neutral / none value.
C2_ShortSeriesNeutral ==
    (last.op = "detect_signals" /\ Len(df.rows) < 2)
    => last.out = Return(NeutralSignals)

\* C3: every field of the Signal Set detect_signals returns, on a series of
\* any length, is a member of its closed vocabulary; none is left unset.
C3_ClosedVocabulary ==
    last.op = "detect_signals"
    => /\ last.out.status = "return"
       /\ last.out.value.macd_signal \in {"golden_cross", "dead_cross", "none"}
       /\ last.out.value.kdj_signal \in {"overbought", "oversold", "none"}
       /\ last.out.value.rsi_signal \in {"overbought", "oversold", "none"}
       /\ last.out.value.ma_signal \in {"bullish", "bearish", "neutral"}
       /\ last.out.value.boll_signal \in {"breakout_up", "breakout_down", "within_band"}
       /\ last.out.value.overall \in {"strong_buy", "buy", "neutral", "sell", "strong_sell"}

\* C4: calculate_support_resistance on a series shorter than lookback fails
\* with the insufficient-data error and returns no Level Result, whatever the
\* method.
C4_InsufficientData ==
    (last.op = "calculate_support_resistance"
        /\ Len(df.rows) < last.args.lookback)
    => last.out = Raise("CalculationError", "insufficient_data")

\* C4 witness: a call with an unknown method on a series one bar short of the
\* lookback
C4_Witness ==
    /\ last.op = "calculate_support_resistance"
    /\ Len(df.rows) + 1 = last.args.lookback
    /\ last.args.method \notin Methods
    /\ last.out.status = "raise"

\* C5: calculate_support_resistance on a series of at least lookback bars with
\* a method outside the four fails with an error whose type differs from the
\* type of the insufficient-data and compute failures (CalculationError).
C5_UnsupportedMethodTyped ==
    (last.op = "calculate_support_resistance"
        /\ Len(df.rows) >= last.args.lookback
        /\ last.args.method \notin Methods)
    => /\ last.out.status = "raise"
       /\ last.out.type # "CalculationError"

IndicatorColumns(c) == UNION {GroupColumns(g) : g \in c.args.indicators}

\* C6: every bar of the augmented series carries a defined number (not NaN,
\* not infinite) in every field of every requested indicator group.
C6_EveryFieldDefined ==
    Returned(last, "calculate_technical_indicators")
    => \A i \in 1..Len(last.out.value.rows) : \A c \in IndicatorColumns(last) :
           IsFinite(last.out.value.rows[i][c])

RECURSIVE MoveSum(_, _, _, _)
\* the sum over bars j in from..to of the rise (dir = 1) or the fall (dir = -1)
\* of the close from bar j-1 to bar j; bar 1 has neither
MoveSum(close, from, to, dir) ==
    IF from > to THEN 0
    ELSE (IF from = 1 THEN 0
          ELSE Max2(0, dir * (close[from].n - close[from - 1].n)))
         + MoveSum(close, from + 1, to, dir)

RsiPeriods == {6, 12, 24}

RsiColumn(p) == CASE p = 6 -> "rsi6" [] p = 12 -> "rsi12" [] p = 24 -> "rsi24"

\* C7: at every bar and for every RSI period, rsi is 100 if the rolling average
\* loss is 0 and the rolling average gain is positive, 50 if both are 0, and it
\* is never NaN or infinite.
C7_RsiEdgePolicy ==
    (Returned(last, "calculate_technical_indicators")
        /\ "rsi" \in last.args.indicators)
    => \A i \in 1..Len(df.rows) : \A p \in RsiPeriods :
           LET close == Col(df, "close")
               gain == MoveSum(close, Max2(1, i - p + 1), i, 1)
               loss == MoveSum(close, Max2(1, i - p + 1), i, -1)
               rsi == last.out.value.rows[i][RsiColumn(p)]
           IN  /\ IsFinite(rsi)
               /\ (loss = 0 /\ gain > 0) => rsi = I(100)
               /\ (loss = 0 /\ gain = 0) => rsi = I(50)

\* C8: two invocations of an operation on identical input return identical
\* output.
C8_Deterministic ==
    (prev # NoCall /\ prev.op = last.op /\ prev.args = last.args)
    => prev.out = last.out

AllLevels(v) ==
    {v.support_levels[i] : i \in 1..Len(v.support_levels)}
        \cup {v.resistance_levels[i] : i \in 1..Len(v.resistance_levels)}

\* C9: every value in the returned support_levels and resistance_levels is
\* strictly positive, for every method.
C9_LevelsPositive ==
    Returned(last, "calculate_support_resistance")
    => \A x \in AllLevels(last.out.value) : x.d > 0 /\ x.n > 0

\* C9 witness: the pivot method computed three supports and a non-positive
\* one was dropped
C9_Witness ==
    /\ Returned(last, "calculate_support_resistance")
    /\ last.args.method = "pivot"
    /\ Len(last.out.value.support_levels) < 3

WindowRange(c) ==
    LET recent_df == tail(df, c.args.lookback)
    IN  Sub(MaxSeq(Col(recent_df, "high")), MinSeq(Col(recent_df, "low")))

FibCall(c) ==
    /\ Returned(c, "calculate_support_resistance")
    /\ c.args.method = "fibonacci"

\* C10 as claimed: with method fibonacci and windowHigh > windowLow, every
\* returned support is strictly less than every returned resistance.
C10_FibStrictlyBelow ==
    (FibCall(last) /\ Gt(WindowRange(last), I(0)))
    => \A i \in 1..Len(last.out.value.support_levels) :
           \A j \in 1..Len(last.out.value.resistance_levels) :
               Lt(last.out.value.support_levels[i], last.out.value.resistance_levels[j])

\* C10 amended: with method fibonacci and windowHigh > windowLow, every
\* returned support is at most every returned resistance, and strictly less
\* when 0.236 * (windowHigh - windowLow) exceeds 0.01, the rounding step.
C10_FibBelowUpToRounding ==
    (FibCall(last) /\ Gt(WindowRange(last), I(0)))
    => \A i \in 1..Len(last.out.value.support_levels) :
           \A j \in 1..Len(last.out.value.resistance_levels) :
               LET s == last.out.value.support_levels[i]
                   r == last.out.value.resistance_levels[j]
               IN  /\ ~Gt(s, r)
                   /\ Gt(Mul(Norm(236, 1000), WindowRange(last)), I(1)) => Lt(s, r)

\* C10 witness: a fibonacci result over a window wide enough for the strict
\* order, with all five supports and resistances returned
C10_Witness ==
    /\ FibCall(last)
    /\ Gt(Mul(Norm(236, 1000), WindowRange(last)), I(1))
    /\ Len(last.out.value.support_levels) = 5
    /\ Len(last.out.value.resistance_levels) = 5

\* a series of DefaultLookback bars whose closes rise strictly from 10.00 to
\* 20.00, every bar with low <= close <= high
IsRamp(f) ==
    /\ Len(f.rows) = DefaultLookback
    /\ {"high", "low", "close"} \subseteq f.cols
    /\ f.rows[1].close = I(1000)
    /\ f.rows[DefaultLookback].close = I(2000)
    /\ \A i \in 2..DefaultLookback : Lt(f.rows[i - 1].close, f.rows[i].close)
    /\ \A i \in 1..DefaultLookback :
           ~Lt(f.rows[i].close, f.rows[i].low) /\ ~Gt(f.rows[i].close, f.rows[i].high)

\* C11: on a 60-bar series whose closes rise strictly from 10 to 20,
\* detect_signals returns overall buy or strong_buy.
C11_RampIsBought ==
    (last.op = "detect_signals" /\ IsRamp(df))
    => /\ last.out.status = "return"
       /\ last.out.value.overall \in {"buy", "strong_buy"}

\* SMA(close, period) at the last bar, over the last min(period, i+1) bars
LastSma(f, period) == Last(calculate_ma(Col(f, "close"), period))

\* the four averages of the ma method, as reported
FourSmas(f) ==
    <<Round2(LastSma(f, 5)), Round2(LastSma(f, 10)), Round2(LastSma(f, 20)),
      Round2(LastSma(f, 60))>>

\* C12: with method ma, on a series of positive closes at least lookback long,
\* the four moving averages SMA(close, 5/10/20/60) are all supports if
\* currentPrice > ma5 and all resistances otherwise; the result never holds
\* fewer than four levels.
C12_MaClassifiedTogether ==
    (Returned(last, "calculate_support_resistance")
        /\ last.args.method = "ma"
        /\ \A i \in 1..Len(df.rows) : Gt(df.rows[i].close, I(0)))
    => IF Gt(Last(df.rows).close, LastSma(df, 5))
       THEN /\ last.out.value.support_levels = FourSmas(df)
            /\ last.out.value.resistance_levels = <<>>
       ELSE /\ last.out.value.resistance_levels = FourSmas(df)
            /\ last.out.value.support_levels = <<>>

\* the columns of row r that the frame f carries
Restrict(r, f) == [c \in f.cols |-> r[c]]

\* C13: an invocation of calculate_technical_indicators or detect_signals,
\* successful or failed, leaves the caller's series as it was (same bars, no
\* added fields); the augmented series is another object than the input, has
\* the input's length and carries the input's bars in the input's order.
C13_InputUntouched ==
    [][(last' # last /\ last'.op \in {"calculate_technical_indicators",
                                      "detect_signals"})
       => /\ df' = df
          /\ Returned(last', "calculate_technical_indicators")
             => /\ last'.ref # "input"
                /\ Len(last'.out.value.rows) = Len(df.rows)
                /\ \A i \in 1..Len(df.rows) :
                       Restrict(last'.out.value.rows[i], df) = df.rows[i]]_vars

\* C13 witness: an augmented series of several bars was returned and the
\* caller's series still has its five columns only
C13_Witness ==
    /\ Returned(last, "calculate_technical_indicators")
    /\ last.args.indicators = AllIndicators
    /\ Len(last.out.value.rows) >= MaxFlat
    /\ df.cols = {"open", "high", "low", "close", "volume"}
    /\ "ma5" \in last.out.value.cols

\* C14: calculate_technical_indicators on a series that lacks one of open,
\* high, low, close, volume fails with the missing-column error, whatever the
\* selected indicators, and returns no augmented series.
C14_MissingField ==
    (last.op = "calculate_technical_indicators"
        /\ ~({"open", "high", "low", "close", "volume"} \subseteq df.cols))
    => last.out = Raise("CalculationError", "missing_column")

\* C14 witness: the moving averages alone were asked for on a series without
\* the volume column, which they do not read, and the call failed
C14_Witness ==
    /\ last.op = "calculate_technical_indicators"
    /\ last.args.indicators = {"ma"}
    /\ "volume" \notin df.cols
    /\ Len(df.rows) >= 1
    /\ last.out.status = "raise"

\* C15: augmenting an augmented series once more with the same selection
\* returns the same augmented series, and detect_signals on an augmented
\* series returns the Signal Set it returns on the raw series.
C15_ReaugmentIsNoOp ==
    (last # NoCall /\ last.on = "augmented")
    => /\ last.op = "calculate_technical_indicators" => last.out = prev.out
       /\ last.op = "detect_signals" => last.out = detect_signals(df)

\* C15 witness: a series long enough for signals, augmented with every
\* indicator and augmented again
C15_Witness ==
    /\ last # NoCall
    /\ last.on = "augmented"
    /\ last.op = "calculate_technical_indicators"
    /\ last.args.indicators = AllIndicators
    /\ last.out.status = "return"
    /\ Len(last.out.value.rows) > MaxFlat

\* every bar of f has the same open = high = low = close
IsFlat(f) ==
    /\ {"open", "high", "low", "close"} \subseteq f.cols
    /\ \A i \in 1..Len(f.rows) :
           /\ f.rows[i].close = f.rows[1].close
           /\ f.rows[i].open = f.rows[i].close
           /\ f.rows[i].high = f.rows[i].close
           /\ f.rows[i].low = f.rows[i].close

\* C16: on a series whose bars all have the same open = high = low = close,
\* boll_upper = boll_mid = boll_lower = close at every bar, bar 0 included.
C16_FlatBands ==
    (Returned(last, "calculate_technical_indicators")
        /\ "boll" \in last.args.indicators /\ IsFlat(df))
    => \A i \in 1..Len(last.out.value.rows) :
           /\ last.out.value.rows[i].boll_upper = last.out.value.rows[i].close
           /\ last.out.value.rows[i].boll_mid = last.out.value.rows[i].close
           /\ last.out.value.rows[i].boll_lower = last.out.value.rows[i].close

\* C17: at every bar volume_ratio = volume / volume_ma5 when volume_ma5 is
\* not 0, and volume_ratio is exactly 0 when volume_ma5 is 0.
C17_VolumeRatio ==
    (Returned(last, "calculate_technical_indicators")
        /\ "volume" \in last.args.indicators)
    => \A i \in 1..Len(last.out.value.rows) :
           IF last.out.value.rows[i].volume_ma5 = I(0)
           THEN last.out.value.rows[i].volume_ratio = I(0)
           ELSE last.out.value.rows[i].volume_ratio
                    = Div(last.out.value.rows[i].volume,
                          last.out.value.rows[i].volume_ma5)

\* the bars of the window of n bars ending at bar i
WindowBars(i, n) == Max2(1, i - n + 1)..i

\* the highest high and the lowest low over the window of n bars ending at i
WindowHigh(f, i, n) ==
    CHOOSE x \in {f.rows[j].high : j \in WindowBars(i, n)} :
        \A j \in WindowBars(i, n) : ~Gt(f.rows[j].high, x)

WindowLow(f, i, n) ==
    CHOOSE x \in {f.rows[j].low : j \in WindowBars(i, n)} :
        \A j \in WindowBars(i, n) : ~Lt(f.rows[j].low, x)

\* the rsv series calculate_kdj smooths, for the frame f
RsvOf(f) ==
    Rsv(Col(f, "close"), rolling_min(Col(f, "low"), 9),
        rolling_max(Col(f, "high"), 9))

\* rsv is a finite number at every bar, and 50 where the trailing 9-bar
\* window has windowHigh = windowLow
RsvFallback(f, rsv) ==
    \A i \in 1..Len(f.rows) :
        /\ IsFinite(rsv[i])
        /\ WindowHigh(f, i, 9) = WindowLow(f, i, 9) => rsv[i] = I(50)

\* K = D = J = 50 at bar i of the augmented frame a
Kdj50(a, i) ==
    /\ a.rows[i].kdj_k = I(50)
    /\ a.rows[i].kdj_d = I(50)
    /\ a.rows[i].kdj_j = I(50)

\* C18 as claimed: on a series of length 1 the call succeeds with
\* K = D = J = 50; at every bar rsv is 50 whenever the trailing 9-bar window
\* has windowHigh = windowLow, and never NaN or infinite.
C18_KdjFallback ==
    (last.op = "calculate_technical_indicators"
        /\ "kdj" \in last.args.indicators
        /\ {"open", "high", "low", "close", "volume"} \subseteq df.cols)
    => /\ last.out.status = "return"
       /\ Len(df.rows) = 1 => Kdj50(last.out.value, 1)
       /\ RsvFallback(df, RsvOf(df))

\* C18 amended: on a series of length 1 whose bar has high = low the call
\* succeeds with K = D = J = 50; at every bar rsv is 50 whenever the trailing
\* 9-bar window has windowHigh = windowLow, and never NaN or infinite.
C18_KdjFallbackOnFlatBar ==
    (last.op = "calculate_technical_indicators"
        /\ "kdj" \in last.args.indicators
        /\ {"open", "high", "low", "close", "volume"} \subseteq df.cols)
    => /\ last.out.status = "return"
       /\ (Len(df.rows) = 1 /\ df.rows[1].high = df.rows[1].low)
          => Kdj50(last.out.value, 1)
       /\ RsvFallback(df, RsvOf(df))

\* C18 witness: the kdj lines of a single bar with high = low
C18_Witness ==
    /\ Returned(last, "calculate_technical_indicators")
    /\ "kdj" \in last.args.indicators
    /\ Len(df.rows) = 1
    /\ df.rows[1].high = df.rows[1].low
    /\ Kdj50(last.out.value, 1)

RECURSIVE CloseSum(_, _, _)
\* the sum of the closes of bars lo..hi of f, in ticks
CloseSum(f, lo, hi) ==
    IF lo > hi THEN 0
    ELSE IF lo = hi THEN f.rows[lo].close.n
    ELSE CloseSum(f, lo, (lo + hi) \div 2) + CloseSum(f, (lo + hi) \div 2 + 1, hi)

MaPeriods == {5, 10, 20, 60, 120, 250}

MaColumn(p) ==
    CASE p = 5 -> "ma5" [] p = 10 -> "ma10" [] p = 20 -> "ma20"
      [] p = 60 -> "ma60" [] p = 120 -> "ma120" [] p = 250 -> "ma250"

\* C19: for every period in {5, 10, 20, 60, 120, 250} and every bar i the SMA
\* field is the mean of the close over the last min(period, i+1) bars ending
\* at i; on a series of length 1 every SMA field is that bar's close.
C19_SmaOverShortWindow ==
    (Returned(last, "calculate_technical_indicators")
        /\ "ma" \in last.args.indicators)
    => \A i \in 1..Len(df.rows) : \A p \in MaPeriods :
           last.out.value.rows[i][MaColumn(p)]
               = Norm(CloseSum(df, i - Min2(p, i) + 1, i), Min2(p, i))

\* C19 witness: a series longer than 10 bars on which the averages over 5 and
\* over 10 bars differ at the last bar
C19_Witness ==
    /\ Returned(last, "calculate_technical_indicators")
    /\ "ma" \in last.args.indicators
    /\ Len(df.rows) > 10
    /\ Last(last.out.value.rows).ma5 # Last(last.out.value.rows).ma10
    /\ Last(last.out.value.rows).ma120 = Last(last.out.value.rows).ma250

\* windowHigh, windowLow and currentPrice of a call c on the frame f, in ticks
HighOf(f, c) == WindowHigh(f, Len(f.rows), c.args.lookback).n

LowOf(f, c) == WindowLow(f, Len(f.rows), c.args.lookback).n

PriceOf(f) == Last(f.rows).close.n

IsPositive(x) == x.d > 0 /\ x.n > 0

\* the levels of the pivot method from pivot = (h + l + c) / 3 and
\* range = h - l, rounded, the positive ones kept
PivotSupports(h, l, c) ==
    SelectSeq(<<Round2(Norm(2 * l + 2 * c - h, 3)),
                Round2(Norm(4 * l - 2 * h + c, 3)),
                Round2(Norm(5 * l - 4 * h + 2 * c, 3))>>, IsPositive)

PivotResistances(h, l, c) ==
    SelectSeq(<<Round2(Norm(2 * h + 2 * c - l, 3)),
                Round2(Norm(4 * h - 2 * l + c, 3)),
                Round2(Norm(5 * h - 4 * l + 2 * c, 3))>>, IsPositive)

\* the levels of a pivot-method result are those of h, l, c
PivotLevelsFrom(v, h, l, c) ==
    /\ v.support_levels = PivotSupports(h, l, c)
    /\ v.resistance_levels = PivotResistances(h, l, c)

\* C20 as claimed: every method reports pivot_point = (windowHigh + windowLow
\* + currentPrice) / 3, and the pivot method's R1..R3 and S1..S3 are computed
\* from that pivot and range.
C20_PivotShared ==
    Returned(last, "calculate_support_resistance")
    => /\ last.out.value.pivot_point
              = Norm(HighOf(df, last) + LowOf(df, last) + PriceOf(df), 3)
       /\ last.args.method = "pivot"
          => PivotLevelsFrom(last.out.value, HighOf(df, last), LowOf(df, last),
                             PriceOf(df))

\* C20 amended: every method reports pivot_point = (windowHigh + windowLow +
\* currentPrice) / 3 rounded to 2 decimals, and the pivot method's R1..R3 and
\* S1..S3 are computed from the unrounded pivot and the range, then rounded.
C20_PivotSharedRounded ==
    Returned(last, "calculate_support_resistance")
    => /\ last.out.value.pivot_point
              = Round2(Norm(HighOf(df, last) + LowOf(df, last) + PriceOf(df), 3))
       /\ last.args.method = "pivot"
          => PivotLevelsFrom(last.out.value, HighOf(df, last), LowOf(df, last),
                             PriceOf(df))

\* C20 witness: a pivot-method result over a window with windowHigh above
\* windowLow, the pivot not a whole number of cents, all six levels returned
C20_Witness ==
    /\ Returned(last, "calculate_support_resistance")
    /\ last.args.method = "pivot"
    /\ HighOf(df, last) > LowOf(df, last)
    /\ (HighOf(df, last) + LowOf(df, last) + PriceOf(df)) % 3 # 0
    /\ Len(last.out.value.support_levels) = 3
    /\ Len(last.out.value.resistance_levels) = 3

\* every bar of f has low <= close <= high
WellFormedBars(f) ==
    \A i \in 1..Len(f.rows) :
        /\ ~Lt(f.rows[i].close, f.rows[i].low)
        /\ ~Lt(f.rows[i].high, f.rows[i].close)

NonIncreasing(xs) == \A i \in 1..Len(xs) - 1 : ~Lt(xs[i], xs[i + 1])

NonDecreasing(xs) == \A i \in 1..Len(xs) - 1 : ~Lt(xs[i + 1], xs[i])

\* C21: on a series of at least lookback bars with low <= close <= high, for
\* every method, the returned support_levels are non-increasing (highest
\* support first) and the returned resistance_levels are non-decreasing.
C21_LevelsOrdered ==
    (Returned(last, "calculate_support_resistance")
        /\ Len(df.rows) >= last.args.lookback
        /\ WellFormedBars(df))
    => /\ NonIncreasing(last.out.value.support_levels)
       /\ NonDecreasing(last.out.value.resistance_levels)

\* C21 restricted to the methods other than "ma"
C21_LevelsOrderedButMa ==
    (Returned(last, "calculate_support_resistance")
        /\ last.args.method # "ma"
        /\ Len(df.rows) >= last.args.lookback
        /\ WellFormedBars(df))
    => /\ NonIncreasing(last.out.value.support_levels)
       /\ NonDecreasing(last.out.value.resistance_levels)

Categories == {"approaching_support", "approaching_resistance", "broke_support", "broke_resistance", "ranging"}

Distance(x, y) == IF Lt(x, y) THEN Sub(y, x) ELSE Sub(x, y)

\* the levels of xs nearest to the price p (none when xs is empty)
Nearest(xs, p) ==
    {xs[i] : i \in {j \in 1..Len(xs) :
        \A k \in 1..Len(xs) : ~Lt(Distance(xs[k], p), Distance(xs[j], p))}}

\* what the recommendation of a Level Result v may depend on
NearestView(v) ==
    [current_price |-> v.current_price,
     support |-> Nearest(v.support_levels, v.current_price),
     resistance |-> Nearest(v.resistance_levels, v.current_price)]

\* the result of another invocation on the same series
OtherCall(method, lookback) ==
    calculate_support_resistance(last.args.symbol, df, method, lookback, now)

\* C22: the recommendation is one of the five categories, and two Level
\* Results with equal currentPrice, equal nearest returned support and equal
\* nearest returned resistance carry the same recommendation.
C22_RecommendationByNearest ==
    Returned(last, "calculate_support_resistance")
    => /\ last.out.value.recommendation \in Categories
       /\ \A method \in Methods, lookback \in LookbackChoices :
              (OtherCall(method, lookback).status = "return"
                  /\ NearestView(OtherCall(method, lookback).value)
                         = NearestView(last.out.value))
              => OtherCall(method, lookback).value.recommendation
                     = last.out.value.recommendation

\* C22, first half: the recommendation is one of the five categories
C22_RecommendationCategory ==
    Returned(last, "calculate_support_resistance")
    => last.out.value.recommendation \in Categories

\* C30: on a series of at least 20 bars, ma_signal bullish never occurs with
\* boll_signal breakout_down, and ma_signal bearish never occurs with
\* boll_signal breakout_up.
C30_MaAndBollAgree ==
    (Returned(last, "detect_signals") /\ Len(df.rows) >= 20)
    => /\ ~(last.out.value.ma_signal = "bullish"
              /\ last.out.value.boll_signal = "breakout_down")
       /\ ~(last.out.value.ma_signal = "bearish"
              /\ last.out.value.boll_signal = "breakout_up")

\* C30 witness: a series of at least 20 bars whose close is above ma5, ma5
\* above ma20, and outside the band
C30_Witness ==
    /\ Returned(last, "detect_signals")
    /\ Len(df.rows) >= 20
    /\ last.out.value.ma_signal = "bullish"
    /\ last.out.value.boll_signal = "breakout_up"

(***************************************************************************)
(* alert/alert_system.py.  The wall clock `now` counts ticks; an alert id  *)
(* holds the clock truncated to the second.  self.alerts is a dict: the    *)
(* entries in insertion order, each naming an Alert object of the heap.    *)
(* The reads of the clock within one setup_alert call fall in one tick.    *)
(***************************************************************************)
TicksPerSecond == 2

SecondsPerHour == 3600

MaxHours == 1

MaxTicks == 1

MaxCalls == 2

AlertSymbols == {"000001", "000002"}

\* AlertType values: a price alert may trigger; a technical alert makes
\* _check_technical_condition raise (AlertCondition has no get)
AlertTypes == {"price", "technical"}

\* expires_in_hours; 0 stands for None as well (line 232 tests its truth)
ExpiryChoices == {0, 1}

\* ---- dict ----
DictKeys(d) == {d[i].id : i \in 1..Len(d)}

DictValues(d) == LET At(i) == d[i].oid IN Table(Len(d), At)

DictSet(d, k, v) ==
    IF k \in DictKeys(d)
    THEN LET At(i) == IF d[i].id = k THEN [id |-> k, oid |-> v] ELSE d[i]
         IN  Table(Len(d), At)
    ELSE Append(d, [id |-> k, oid |-> v])

DictDel(d, k) == LET Keep(e) == e.id # k IN SelectSeq(d, Keep)

\* line 220: f"{symbol}_{alert_type}_{datetime.now().strftime('%Y%m%d%H%M%S')}"
AlertId(symbol, alert_type, t) == <<symbol, alert_type, t \div TicksPerSecond>>

\* lines 231-233: expires_at
ExpiresAt(expires_in_hours, t) ==
    IF expires_in_hours # 0
    THEN Just(t + expires_in_hours * SecondsPerHour * TicksPerSecond)
    ELSE Nothing

\* lines 236-245: the Alert object
NewAlert(symbol, alert_type, notification_method, expires_in_hours, t) ==
    [id |-> AlertId(symbol, alert_type, t),
     symbol |-> symbol,
     alert_type |-> alert_type,
     status |-> "active",
     created_at |-> t,
     expires_at |-> ExpiresAt(expires_in_hours, t),
     triggered_at |-> Nothing,
     notification_methods |-> <<notification_method>>]

\* an AlertSystem as constructed (lines 190-193)
NewAlertSystem == [alerts |-> <<>>, heap |-> <<>>]

\* lines 195-252: AlertSystem.setup_alert; the system after the call and the
\* id returned
AlertSystem_setup_alert(self, symbol, alert_type, expires_in_hours, t) ==
    [alerts |-> DictSet(self.alerts, AlertId(symbol, alert_type, t),
                        Len(self.heap) + 1),
     heap |-> Append(self.heap,
                     NewAlert(symbol, alert_type, "console", expires_in_hours, t)),
     id |-> AlertId(symbol, alert_type, t)]

\* lines 254-260: AlertSystem.remove_alert
AlertSystem_remove_alert(self, alert_id) ==
    IF alert_id \in DictKeys(self.alerts)
    THEN [alerts |-> DictDel(self.alerts, alert_id), heap |-> self.heap,
          result |-> TRUE]
    ELSE [alerts |-> self.alerts, heap |-> self.heap, result |-> FALSE]

\* lines 262-279: AlertSystem.list_alerts
ListedEntry(alert) ==
    [id |-> alert.id, symbol |-> alert.symbol, alert_type |-> alert.alert_type,
     status |-> alert.status, created_at |-> alert.created_at,
     expires_at |-> alert.expires_at]

Listable(alert, symbol, status) ==
    /\ ~(symbol # "None" /\ alert.symbol # symbol)
    /\ ~(status # "None" /\ alert.status # status)

AlertSystem_list_alerts(self, symbol, status) ==
    LET At(i) == self.heap[self.alerts[i].oid]
        Keep(a) == Listable(a, symbol, status)
    IN  SeqMap(ListedEntry, SelectSeq(Table(Len(self.alerts), At), Keep))

\* lines 461-494: the module-level functions, each on an AlertSystem of its own
setup_alert(symbol, alert_type, expires_in_hours, t) ==
    AlertSystem_setup_alert(NewAlertSystem, symbol, alert_type,
                            expires_in_hours, t).id

remove_alert(alert_id) == AlertSystem_remove_alert(NewAlertSystem, alert_id).result

list_alerts(symbol, status) == AlertSystem_list_alerts(NewAlertSystem, symbol, status)

\* ---- one AlertSystem: the calls of its user and the checks of its alerts ----
Self == [alerts |-> alerts, heap |-> heap]

\* one call: its arguments and what it returned
Called(scope, op, symbol, id, result) ==
    [scope |-> scope, op |-> op, symbol |-> symbol, id |-> id, result |-> result]

\* the ids setup_alert has returned so far
ReturnedIds(scope) ==
    {history[i].result : i \in {j \in 1..Len(history) :
        history[j].scope = scope /\ history[j].op = "setup_alert"}}

\* the frames of the technical-analysis engine are not involved
NoFrame == Frame(<<>>)

EngineIdle == df = NoFrame /\ prev = NoCall /\ last = NoCall

AlertInit ==
    /\ EngineIdle
    /\ now = 0
    /\ AlertIdle
    /\ MonitorIdle
    /\ RetryIdle

\* the instants at which the clock is read: up to MaxTicks ticks after the
\* start and after each of MaxHours full hours
Instants ==
    {h * SecondsPerHour * TicksPerSecond + k : h \in 0..MaxHours, k \in 0..MaxTicks}

\* the clock moves on to a later instant
Pass ==
    /\ \E t \in Instants :
           /\ t > now
           /\ now' = t
    /\ UNCHANGED <<df, last, prev, alertVars, monitorVars, wrapper>>

SetupAlert ==
    /\ Len(history) < MaxCalls
    /\ \E symbol \in AlertSymbols, alert_type \in AlertTypes, h \in ExpiryChoices :
           /\ alerts' = AlertSystem_setup_alert(Self, symbol, alert_type, h, now).alerts
           /\ heap' = AlertSystem_setup_alert(Self, symbol, alert_type, h, now).heap
           /\ history' = Append(history,
                  Called("system", "setup_alert", symbol, AlertId(symbol, alert_type, now),
                         AlertSystem_setup_alert(Self, symbol, alert_type, h, now).id))
    /\ UNCHANGED <<df, now, last, prev, checking, notified, listed, monitorVars, wrapper>>

RemoveAlert ==
    /\ Len(history) < MaxCalls
    /\ \E id \in ReturnedIds("system") :
           /\ alerts' = AlertSystem_remove_alert(Self, id).alerts
           /\ history' = Append(history,
                  Called("system", "remove_alert", "None", id,
                         AlertSystem_remove_alert(Self, id).result))
    /\ UNCHANGED <<df, now, last, prev, heap, checking, notified, listed, monitorVars, wrapper>>

\* the module-level functions
ModuleSetupAlert ==
    /\ Len(history) < MaxCalls
    /\ \E symbol \in AlertSymbols, alert_type \in AlertTypes, h \in ExpiryChoices :
           history' = Append(history,
               Called("module", "setup_alert", symbol, AlertId(symbol, alert_type, now),
                      setup_alert(symbol, alert_type, h, now)))
    /\ UNCHANGED <<df, now, last, prev, alerts, heap, checking, notified, listed, monitorVars, wrapper>>

ModuleRemoveAlert ==
    /\ Len(history) < MaxCalls
    /\ \E id \in ReturnedIds("module") :
           history' = Append(history,
               Called("module", "remove_alert", "None", id, remove_alert(id)))
    /\ UNCHANGED <<df, now, last, prev, alerts, heap, checking, notified, listed, monitorVars, wrapper>>

ModuleListAlerts ==
    /\ \E symbol \in AlertSymbols \cup {"None"} :
           listed' = [scope |-> "module", symbol |-> symbol, at |-> Len(history),
                      result |-> list_alerts(symbol, "None")]
    /\ UNCHANGED <<df, now, last, prev, alerts, heap, checking, notified, history, monitorVars, wrapper>>

\* ---- _check_all_alerts, alert by alert over list(self.alerts.values()) ----
\* a triggered alert examined again
Skipped_DisabledOnly(alert) == alert.status = "disabled"

\* line 319: alert.status in [TRIGGERED, DISABLED]
Skipped(alert) == alert.status \in {"triggered", "disabled"}

\* line 323: alert.expires_at and datetime.now() > alert.expires_at
Expired(alert, t) == alert.expires_at # Nothing /\ t > alert.expires_at[1]

\* lines 330-331
Triggered(alert, t) == [alert EXCEPT !.status = "triggered", !.triggered_at = Just(t)]

\* lines 413-426: one notification for every notification method
Notifications(alert, oid) == [i \in 1..Len(alert.notification_methods) |-> oid]

\* lines 337-358: the condition of a price alert depends on the quote; the
\* condition of a technical alert raises, which line 333 catches
MayTrigger(alert) == alert.alert_type = "price"

Examined == heap[Head(checking.queue)]

BeginCheck ==
    /\ checking.pc = "idle"
    /\ checking' = [pc |-> "next", queue |-> DictValues(alerts)]
    /\ UNCHANGED <<df, now, last, prev, alerts, heap, notified, history, listed, monitorVars, wrapper>>

SkipAlert ==
    /\ checking.pc = "next"
    /\ checking.queue # <<>>
    /\ Skipped(Examined)
    /\ checking' = [pc |-> "next", queue |-> Tail(checking.queue)]
    /\ UNCHANGED <<df, now, last, prev, alerts, heap, notified, history, listed, monitorVars, wrapper>>

ExpireAlert ==
    /\ checking.pc = "next"
    /\ checking.queue # <<>>
    /\ ~Skipped(Examined)
    /\ Expired(Examined, now)
    /\ heap' = [heap EXCEPT ![Head(checking.queue)].status = "expired"]
    /\ checking' = [pc |-> "next", queue |-> Tail(checking.queue)]
    /\ UNCHANGED <<df, now, last, prev, alerts, notified, history, listed, monitorVars, wrapper>>

\* line 328: _check_alert_condition fetches the quote of the alert's symbol
FetchQuote ==
    /\ checking.pc = "next"
    /\ checking.queue # <<>>
    /\ ~Skipped(Examined)
    /\ ~Expired(Examined, now)
    /\ checking' = [pc |-> "fetch", queue |-> Tail(checking.queue),
                    cur |-> Head(checking.queue), seen |-> now]
    /\ UNCHANGED <<df, now, last, prev, alerts, heap, notified, history, listed, monitorVars, wrapper>>

\* the condition is False, or its check raised
NotTriggered ==
    /\ checking.pc = "fetch"
    /\ checking' = [pc |-> "next", queue |-> checking.queue]
    /\ UNCHANGED <<df, now, last, prev, alerts, heap, notified, history, listed, monitorVars, wrapper>>

\* lines 329-332
Trigger ==
    /\ checking.pc = "fetch"
    /\ MayTrigger(heap[checking.cur])
    /\ heap' = [heap EXCEPT ![checking.cur] = Triggered(heap[checking.cur], now)]
    /\ notified' = notified \o Notifications(heap[checking.cur], checking.cur)
    /\ checking' = [pc |-> "next", queue |-> checking.queue]
    /\ UNCHANGED <<df, now, last, prev, alerts, history, listed, monitorVars, wrapper>>

EndCheck ==
    /\ checking.pc = "next"
    /\ checking.queue = <<>>
    /\ checking' = [pc |-> "idle"]
    /\ UNCHANGED <<df, now, last, prev, alerts, heap, notified, history, listed, monitorVars, wrapper>>

\* the module-level functions, called in any order
ModuleNext ==
    \/ Pass
    \/ ModuleSetupAlert
    \/ ModuleRemoveAlert
    \/ ModuleListAlerts

ModuleSpec == AlertInit /\ [][ModuleNext]_vars

\* one AlertSystem, its user and the checks of its alerts
AlertNext ==
    \/ Pass
    \/ SetupAlert
    \/ RemoveAlert
    \/ BeginCheck
    \/ SkipAlert
    \/ ExpireAlert
    \/ FetchQuote
    \/ NotTriggered
    \/ Trigger
    \/ EndCheck

AlertSpec == AlertInit /\ [][AlertNext]_vars

\* the setup_alert call history[i] is not undone by a remove_alert of its id
\* among the first `at` calls
StillSet(i, at) ==
    /\ history[i].op = "setup_alert"
    /\ ~\E j \in i + 1..at :
           history[j].op = "remove_alert" /\ history[j].id = history[i].result

\* C23: once the module-level setup_alert(symbol, ...) has returned an id,
\* every later module-level list_alerts(symbol=symbol) and list_alerts()
\* returns a non-empty list holding an alert of that symbol, until
\* remove_alert(id) is called for that id.
C23_ListedUntilRemoved ==
    listed.scope = "module"
    => \A i \in 1..listed.at :
           (history[i].scope = "module"
               /\ StillSet(i, listed.at)
               /\ listed.symbol \in {history[i].symbol, "None"})
           => /\ listed.result # <<>>
              /\ \E k \in 1..Len(listed.result) :
                     listed.result[k].symbol = history[i].symbol

NoRemove == \A i \in 1..Len(history) : history[i].op # "remove_alert"

\* C29: after k AlertSystem.setup_alert calls and no remove_alert, k alerts
\* are stored and the k returned ids are pairwise different.
C29_EverySetupRegisters ==
    NoRemove
    => /\ Len(alerts) = Len(history)
       /\ \A i, j \in 1..Len(history) :
              i # j => history[i].result # history[j].result

TimesNotified(o) == Cardinality({i \in 1..Len(notified) : notified[i] = o})

NotifiedOnce == \A o \in 1..Len(heap) : TimesNotified(o) <= 1

\* a step moves a status from active to triggered or to expired only, and
\* sets triggered_at of an active alert only
StatusMoves ==
    \A o \in 1..Len(heap) :
        /\ heap'[o].status # heap[o].status
           => heap[o].status = "active" /\ heap'[o].status \in {"triggered", "expired"}
        /\ heap'[o].triggered_at # heap[o].triggered_at
           => heap[o].status = "active"

\* no check goes on to the condition of a triggered alert
TriggeredNotChecked ==
    (checking.pc = "next" /\ checking'.pc = "fetch")
    => heap[checking'.cur].status # "triggered"

JustTriggered(o) == heap[o].status # "triggered" /\ heap'[o].status = "triggered"

\* C27 as claimed: each alert is notified at most once; a status only moves
\* active -> triggered or active -> expired; a triggered alert is never
\* checked or re-triggered; an alert whose expires_at has passed is never
\* triggered.
C27_NotifiedAtMostOnce ==
    /\ []NotifiedOnce
    /\ [][/\ StatusMoves
          /\ TriggeredNotChecked
          /\ \A o \in 1..Len(heap) :
                 JustTriggered(o) => ~Expired(heap[o], now')]_vars

\* C27 amended: as C27, but an alert is never triggered if its expires_at had
\* passed when the check examined it (line 323); the clock may pass
\* expires_at while the condition is checked.
C27_NotifiedAtMostOnceExaminedInTime ==
    /\ []NotifiedOnce
    /\ [][/\ StatusMoves
          /\ TriggeredNotChecked
          /\ \A o \in 1..Len(heap) :
                 JustTriggered(o)
                 => (checking.pc = "fetch" /\ checking.cur = o
                        /\ ~Expired(heap[o], checking.seen))]_vars

\* C27 witness: a later check comes to an alert that is triggered and was
\* notified once, while another alert is expired
C27_Witness ==
    /\ checking.pc = "next"
    /\ checking.queue # <<>>
    /\ Examined.status = "triggered"
    /\ TimesNotified(Head(checking.queue)) = 1
    /\ \E o \in 1..Len(heap) : heap[o].status = "expired"

(***************************************************************************)
(* The monitoring of one AlertSystem (lines 281-313).  One caller invokes  *)
(* start_monitoring and stop_monitoring; every thread started runs         *)
(* _monitor_loop and is at the test of `while self.running`, inside        *)
(* _check_all_alerts, in the sleep of the check interval, or has exited.   *)
(* The sleep tests self.running every second, so join(timeout=5) runs out  *)
(* only on a thread inside a check.                                        *)
(***************************************************************************)
MaxThreads == 3

Alive(t) == threads[t] # "exited"

\* lines 283-284: already running, nothing is done
StartWhileRunning ==
    /\ caller = "idle"
    /\ running
    /\ UNCHANGED vars

\* lines 286-289
StartMonitoring ==
    /\ caller = "idle"
    /\ ~running
    /\ Len(threads) < MaxThreads
    /\ running' = TRUE
    /\ threads' = Append(threads, "test")
    /\ monitor_thread' = Just(Len(threads) + 1)
    /\ UNCHANGED <<df, now, last, prev, alertVars, caller, wrapper>>

\* lines 295-297: running = False, then the join if there is a thread
StopMonitoring ==
    /\ caller = "idle"
    /\ running' = FALSE
    /\ caller' = IF monitor_thread # Nothing THEN "joining" ELSE "idle"
    /\ UNCHANGED <<df, now, last, prev, alertVars, monitor_thread, threads, wrapper>>

\* line 297: the thread has ended
JoinReturns ==
    /\ caller = "joining"
    /\ ~Alive(monitor_thread[1])
    /\ caller' = "idle"
    /\ UNCHANGED <<df, now, last, prev, alertVars, running, monitor_thread, threads, wrapper>>

\* line 297: the 5 seconds run out while the check is still in progress
JoinTimesOut ==
    /\ caller = "joining"
    /\ threads[monitor_thread[1]] = "check"
    /\ caller' = "idle"
    /\ UNCHANGED <<df, now, last, prev, alertVars, running, monitor_thread, threads, wrapper>>

\* line 303: while self.running
LoopTest(t) ==
    /\ threads[t] = "test"
    /\ threads' = [threads EXCEPT ![t] = IF running THEN "check" ELSE "exited"]
    /\ UNCHANGED <<df, now, last, prev, alertVars, running, monitor_thread, caller, wrapper>>

\* lines 304-307: the check ends, by return or by an exception caught
CheckEnds(t) ==
    /\ threads[t] = "check"
    /\ threads' = [threads EXCEPT ![t] = "sleep"]
    /\ UNCHANGED <<df, now, last, prev, alertVars, running, monitor_thread, caller, wrapper>>

\* lines 310-313: the interval is over, or running was found False
SleepEnds(t) ==
    /\ threads[t] = "sleep"
    /\ threads' = [threads EXCEPT ![t] = "test"]
    /\ UNCHANGED <<df, now, last, prev, alertVars, running, monitor_thread, caller, wrapper>>

MonitorInit == AlertInit

MonitorNext ==
    \/ StartWhileRunning
    \/ StartMonitoring
    \/ StopMonitoring
    \/ JoinReturns
    \/ JoinTimesOut
    \/ \E t \in 1..Len(threads) : LoopTest(t)
    \/ \E t \in 1..Len(threads) : CheckEnds(t)
    \/ \E t \in 1..Len(threads) : SleepEnds(t)

MonitorSpec == MonitorInit /\ [][MonitorNext]_vars

\* C28: for any interleaving of start_monitoring and stop_monitoring calls on
\* one AlertSystem, at most one thread is executing _monitor_loop at any time
\* (the half of the claim a finite run refutes).
C28_OneMonitorLoop ==
    Cardinality({t \in 1..Len(threads) : Alive(t)}) <= 1

(***************************************************************************)
(* utils/decorators.py, retry (lines 142-205): one call of the wrapper.    *)
(* Every invocation of the wrapped function returns, raises an exception   *)
(* of a class listed in `exceptions`, or raises another exception.  The    *)
(* wrapper records nothing but attempt, current_delay and last_exception;  *)
(* `outcomes` and `sleeps` recount what it did: the invocations made and   *)
(* the durations passed to time.sleep.  delay and backoff are not          *)
(* negative.                                                               *)
(***************************************************************************)
MaxAttempts == 3

DelayChoices == {0, 1, 3}

BackoffChoices == {1, 2}

\* the sleep taken after the last attempt as well
MoreAttempts_Inclusive(attempt, max_attempts) == attempt <= max_attempts

\* line 184: if attempt < max_attempts
MoreAttempts(attempt, max_attempts) == attempt < max_attempts

\* the exception the k-th invocation raised; the k-th invocation, if it
\* returns, returns k
RaisedBy(type, k) == [type |-> type, no |-> k]

\* lines 167-171: the wrapper is entered
CallWrapped ==
    /\ wrapper.pc = "idle"
    /\ \E n \in 0..MaxAttempts, delay \in DelayChoices, backoff \in BackoffChoices :
           wrapper' = [pc |-> "loop", max_attempts |-> n, delay |-> delay,
                       backoff |-> backoff, attempt |-> 1, current_delay |-> delay,
                       last_exception |-> Nothing, result |-> Nothing,
                       exception |-> Nothing, outcomes |-> <<>>, sleeps |-> <<>>]
    /\ UNCHANGED <<df, now, last, prev, alertVars, monitorVars>>

InLoop == wrapper.pc = "loop" /\ wrapper.attempt <= wrapper.max_attempts

\* lines 173-179: the invocation returns and so does the wrapper
FuncReturns ==
    /\ InLoop
    /\ wrapper' = [wrapper EXCEPT !.pc = "returned",
                                  !.result = Just(wrapper.attempt),
                                  !.outcomes = Append(@, "return")]
    /\ UNCHANGED <<df, now, last, prev, alertVars, monitorVars>>

\* lines 181-195: a listed exception; the sleep, unless this was the last attempt
FuncRaisesListed ==
    /\ InLoop
    /\ wrapper' = [wrapper EXCEPT
           !.outcomes = Append(@, "listed"),
           !.last_exception = Just(RaisedBy("listed", wrapper.attempt)),
           !.sleeps = IF MoreAttempts(wrapper.attempt, wrapper.max_attempts)
                      THEN Append(@, wrapper.current_delay) ELSE @,
           !.current_delay = IF MoreAttempts(wrapper.attempt, wrapper.max_attempts)
                             THEN @ * wrapper.backoff ELSE @,
           !.attempt = @ + 1]
    /\ UNCHANGED <<df, now, last, prev, alertVars, monitorVars>>

\* an exception line 181 does not catch leaves the wrapper
FuncRaisesOther ==
    /\ InLoop
    /\ wrapper' = [wrapper EXCEPT !.pc = "raised",
                                  !.outcomes = Append(@, "other"),
                                  !.exception = Just(RaisedBy("other", wrapper.attempt))]
    /\ UNCHANGED <<df, now, last, prev, alertVars, monitorVars>>

\* lines 197-201: the attempts are used up
AttemptsUsedUp ==
    /\ wrapper.pc = "loop"
    /\ wrapper.attempt > wrapper.max_attempts
    /\ wrapper' = [wrapper EXCEPT
           !.pc = "raised",
           !.exception = IF wrapper.last_exception # Nothing
                         THEN wrapper.last_exception
                         ELSE Just(RaisedBy("RuntimeError", 0))]
    /\ UNCHANGED <<df, now, last, prev, alertVars, monitorVars>>

RetryInit == AlertInit

RetryNext ==
    \/ CallWrapped
    \/ FuncReturns
    \/ FuncRaisesListed
    \/ FuncRaisesOther
    \/ AttemptsUsedUp

RetrySpec == RetryInit /\ [][RetryNext]_vars

RECURSIVE Pow(_, _)
Pow(b, k) == IF k = 0 THEN 1 ELSE b * Pow(b, k - 1)

\* the invocations before the last one made so far
Earlier(w) == 1..Len(w.outcomes) - 1

\* C25: the wrapped function is invoked at most n times; the wrapper returns
\* the result of the first invocation that succeeds and invokes no more; an
\* exception not listed leaves at once; when all n invocations raise a listed
\* exception the last one is raised again; the wrapper sleeps between
\* attempts only, at most n - 1 times, the k-th sleep delay * backoff^(k-1).
C25_RetryAtMostN ==
    wrapper.pc # "idle"
    => /\ Len(wrapper.outcomes) <= wrapper.max_attempts
       /\ \A i \in Earlier(wrapper) : wrapper.outcomes[i] = "listed"
       /\ wrapper.pc = "returned"
          <=> (wrapper.outcomes # <<>> /\ Last(wrapper.outcomes) = "return")
       /\ wrapper.pc = "returned"
          => wrapper.result = Just(Len(wrapper.outcomes))
       /\ (wrapper.outcomes # <<>> /\ Last(wrapper.outcomes) = "other")
          => /\ wrapper.pc = "raised"
             /\ wrapper.exception = Just(RaisedBy("other", Len(wrapper.outcomes)))
       /\ (wrapper.pc = "raised" /\ wrapper.max_attempts >= 1
              /\ Last(wrapper.outcomes) = "listed")
          => /\ Len(wrapper.outcomes) = wrapper.max_attempts
             /\ wrapper.exception = Just(RaisedBy("listed", wrapper.max_attempts))
       /\ Len(wrapper.sleeps) <= Max2(wrapper.max_attempts - 1, 0)
       /\ Len(wrapper.sleeps)
              = Cardinality({i \in 1..Len(wrapper.outcomes) :
                    wrapper.outcomes[i] = "listed" /\ i < wrapper.max_attempts})
       /\ \A k \in 1..Len(wrapper.sleeps) :
              wrapper.sleeps[k] = wrapper.delay * Pow(wrapper.backoff, k - 1)

\* C25 witness: MaxAttempts attempts all raised a listed exception, with
\* growing sleeps between them, and the last exception was raised again
C25_Witness ==
    /\ wrapper.pc = "raised"
    /\ wrapper.max_attempts = MaxAttempts
    /\ Len(wrapper.outcomes) = MaxAttempts
    /\ wrapper.exception = Just(RaisedBy("listed", MaxAttempts))
    /\ Len(wrapper.sleeps) = MaxAttempts - 1
    /\ wrapper.sleeps[1] < wrapper.sleeps[2]

(***************************************************************************)
(* tools/web_quote_validator.py, validate_against_reference (lines         *)
(* 367-425) and analysis/stock_analyzer.py, the prediction of analyze_stock *)
(* (lines 306-418): functions of their arguments, applied once.  Prices    *)
(* are in ticks of 0.01, the threshold and diff_pct in percent, the        *)
(* probability a fraction.                                                 *)
(***************************************************************************)
AbsF(x) == IF Lt(x, I(0)) THEN Neg(x) ELSE x

\* round(x, 4)
Round4(x) == Div(Round2(Mul(x, I(10000))), I(10000))

\* the text every warning starts with
Mismatch == "[DATA_MISMATCH_WARNING]"

\* line 406
DiffPct(web_price, reference_price) ==
    Mul(Div(AbsF(Sub(web_price, reference_price)), reference_price), I(100))

\* lines 407-425: the result once diff_pct is known
Validated(web_price, reference_price, threshold, diff_pct) ==
    [is_valid |-> ~Gt(diff_pct, threshold),
     web_price |-> web_price,
     reference_price |-> reference_price,
     diff |-> Just(Round2(AbsF(Sub(web_price, reference_price)))),
     diff_pct |-> Just(Round4(diff_pct)),
     threshold |-> threshold,
     warning |-> IF Gt(diff_pct, threshold) THEN Just(Mismatch) ELSE Nothing]

\* lines 395-425; a key the dict lacks is Nothing
validate_against_reference(web_price, reference_price, threshold) ==
    IF reference_price = I(0)
    THEN [is_valid |-> FALSE,
          warning |-> Just(Mismatch),
          web_price |-> web_price,
          reference_price |-> reference_price,
          diff |-> Nothing,
          diff_pct |-> Nothing,
          threshold |-> threshold]
    ELSE Validated(web_price, reference_price, threshold,
                   DiffPct(web_price, reference_price))

\* lines 309-369, the probability in hundredths: 0.5, moved by the technical
\* trend ("up" is the trend of line 155, "down" that of line 157), the overall
\* signal, the three fundamental levels (valuation_level as analyze_valuation
\* names it, lines 190-195) and the main inflow
TrendProbability(trend, overall, profitability, growth, valuation, main_inflow) ==
    50 + (IF trend = "up" THEN 20 ELSE IF trend = "down" THEN -20 ELSE 0)
       + (IF overall \in {"buy", "strong_buy"} THEN 15
          ELSE IF overall \in {"sell", "strong_sell"} THEN -15 ELSE 0)
       + (IF profitability = "strong" THEN 10 ELSE 0)
       + (IF growth = "high" THEN 10 ELSE 0)
       + (IF valuation = "undervalued" THEN 10
          ELSE IF valuation = "overvalued" THEN -10 ELSE 0)
       + (IF main_inflow > 0 THEN 10 ELSE IF main_inflow < 0 THEN -10 ELSE 0)

\* line 411: probability = round(trend_probability, 2), of p hundredths
Prediction(p) == [probability |-> Norm(p, 100)]

PriceChoices == {-100, 0, 100, 101, 200, 201}

\* 0 %, 0.5 % (the default) and 5 %
ThresholdChoices == {I(0), Norm(1, 2), I(5)}

Trends == {"up", "down", "sideways"}

OverallSignals == {"strong_buy", "buy", "neutral", "sell", "strong_sell"}

ProfitabilityLevels == {"strong", "moderate"}

GrowthLevels == {"high", "moderate"}

ValuationLevels == {"undervalued", "fair", "overvalued"}

InflowChoices == {-1, 0, 1}

ValidateAgainstReference ==
    /\ last = NoCall
    /\ \E web_price \in PriceChoices, reference_price \in PriceChoices, threshold \in ThresholdChoices :
           last' = [op |-> "validate_against_reference",
                    args |-> [web_price |-> I(web_price),
                              reference_price |-> I(reference_price),
                              threshold |-> threshold],
                    out |-> Return(validate_against_reference(
                                I(web_price), I(reference_price), threshold))]
    /\ UNCHANGED <<df, now, prev, alertVars, monitorVars, wrapper>>

AnalyzeStock ==
    /\ last = NoCall
    /\ \E trend \in Trends, overall \in OverallSignals, profitability \in ProfitabilityLevels, growth \in GrowthLevels, valuation \in ValuationLevels, main_inflow \in InflowChoices :
           last' = [op |-> "analyze_stock",
                    args |-> [trend |-> trend, overall |-> overall,
                              profitability |-> profitability, growth |-> growth,
                              valuation |-> valuation, main_inflow |-> main_inflow],
                    out |-> Return(Prediction(TrendProbability(
                                trend, overall, profitability, growth, valuation,
                                main_inflow)))]
    /\ UNCHANGED <<df, now, prev, alertVars, monitorVars, wrapper>>

CallInit == AlertInit

CallNext ==
    \/ ValidateAgainstReference
    \/ AnalyzeStock

CallSpec == CallInit /\ [][CallNext]_vars

\* |web - reference| / |reference| * 100 > threshold, in integers
DeviationExceeds(web, ref, threshold) ==
    Abs(web.n - ref.n) * 100 * threshold.d > threshold.n * Abs(ref.n)

\* C24: is_valid is False exactly when reference_price is 0 (then diff_pct is
\* None) or the absolute percentage deviation of web_price from
\* reference_price exceeds threshold, and the result holds a warning starting
\* with [DATA_MISMATCH_WARNING] if and only if is_valid is False, negative
\* prices included.
C24_ValidExactlyWithinThreshold ==
    Returned(last, "validate_against_reference")
    => /\ ~last.out.value.is_valid
          <=> (last.args.reference_price = I(0)
                  \/ DeviationExceeds(last.args.web_price, last.args.reference_price,
                                      last.args.threshold))
       /\ last.args.reference_price = I(0) => last.out.value.diff_pct = Nothing
       /\ last.out.value.warning = Just(Mismatch) <=> ~last.out.value.is_valid

\* C24 for a reference_price that is not negative
C24_ValidExactlyWithinThresholdOfPositive ==
    (Returned(last, "validate_against_reference")
        /\ last.args.reference_price.n >= 0)
    => /\ ~last.out.value.is_valid
          <=> (last.args.reference_price = I(0)
                  \/ DeviationExceeds(last.args.web_price, last.args.reference_price,
                                      last.args.threshold))
       /\ last.args.reference_price = I(0) => last.out.value.diff_pct = Nothing
       /\ last.out.value.warning = Just(Mismatch) <=> ~last.out.value.is_valid

\* C26: the probability of the prediction is in [0, 1] for every combination
\* of technical trend, overall signal, profitability level, growth level,
\* valuation level and sign of the main fund inflow.
C26_ProbabilityInUnitInterval ==
    Returned(last, "analyze_stock")
    => /\ ~Lt(last.out.value.probability, I(0))
       /\ ~Gt(last.out.value.probability, I(1))

====
